---- MODULE Spec2Model ----
(***************************************************************************)
(* A model of lutris/runners/winesteam.py: the module-level process        *)
(* helpers is_running / shutdown / kill, and the winesteam runner          *)
(* (prelaunch, play, stop, steam_path, is_installed, get_game_data_path,   *)
(* game_path, launch_args).                                                *)
(*                                                                         *)
(* Python values are modelled as TLA+ strings: a str is the string itself, *)
(* None is the string None below, a pid is the decimal string pgrep        *)
(* prints.  The operating system (process table, filesystem) is the        *)
(* environment: its changes are actions of their own, which interleave     *)
(* with the steps of prelaunch() and stop() at every call that reads the   *)
(* process table.                                                          *)
(***************************************************************************)
EXTENDS Integers, Sequences, FiniteSets, TLC

VARIABLES
    procs,          \* pids of the live processes that match the probed name pattern
    pc,             \* the control point of the running operation
    op,             \* the running (or last finished) operation
    rpid,           \* what get_pid returned inside the last is_running() (line 39)
    spid,           \* shutdown(): pid (line 46)
    cwd,            \* shutdown(): cwd (line 49)
    cmdline,        \* shutdown(): cmdline (line 50)
    kpid,           \* kill(): the value of system.get_pid(...) handed to kill_pid (line 57)
    trace,          \* the process-table calls and sleeps: [call, pid, at]
    events,         \* the calls the running operation made, in order
    raised,         \* the exception that ended the operation, or None
    prelaunch_ret,  \* what prelaunch() returned, or None
    depends,        \* what check_depends() answers
    fs,             \* the paths that exist on disk
    runner_config,  \* self.runner_config
    game_config,    \* self.config['game']
    manifest,       \* per Steam directory and appid: what its appmanifest says
    steam_config,   \* per Steam directory: its config file, as read_config gives it
    saved,          \* the steam_path of the persisted winesteam runner configuration
    plan,           \* what play() returned
    data_path,      \* what a lookup of a path returned
    popen,          \* what install_game / validate_game handed to subprocess.Popen
    ret,            \* what is_installed() returned
    listing,        \* what get_steam_config / get_appid_list returned
    steam_dir       \* install(): steam_dir (lines 128, 132)

vars == <<procs, pc, op, rpid, spid, cwd, cmdline, kpid, trace, events, raised,
          prelaunch_ret, depends, fs, runner_config, game_config, manifest,
          steam_config, saved, plan, data_path, popen, ret, listing, steam_dir>>

seqVars == <<rpid, spid, cwd, cmdline, kpid>>
runnerVars == <<depends, fs, runner_config, game_config, manifest, steam_config, saved>>
resVars == <<popen, ret, listing, steam_dir>>
outVars == <<plan, data_path, popen, ret, listing, steam_dir>>

-----------------------------------------------------------------------------
(* Python values *)

None == "None"
True == "True"
False == "False"

\* Python truthiness of a str-or-None value.
Truthy(v) == v # None /\ v # ""

\* plan before play() has returned anything.
NoPlan == [none |-> TRUE]

\* popen before anything was handed to subprocess.Popen.
NoPopen == [args |-> <<>>, string |-> "", shell |-> FALSE]

\* listing before anything was returned, and for a returned None.
NoListing == [found |-> FALSE, keys |-> {}]

\* `x or ''`
OrEmpty(v) == IF Truthy(v) THEN v ELSE ""

-----------------------------------------------------------------------------
(* Bounds *)

\* How many processes matching the pattern can be alive at once.
MaxProcs == 2

Pids == {ToString(100 + i) : i \in 1..MaxProcs}

\* How many Steam apps there are.
MaxApps == 1

AppIds == {ToString(439 + i) : i \in 1..MaxApps}

-----------------------------------------------------------------------------
(* The process table, as lutris.util.system shows it (spec 4.1, 6) *)

\* system.get_pid(pattern): the first enumerated match, in no guaranteed order;
\* nothing when no process matches.
get_pid == IF procs = {} THEN {None} ELSE procs

\* system.get_cwd(pid): nothing once the pid has exited.
get_cwd(pid) == IF pid \in procs THEN "/wine/" \o pid ELSE None

\* system.get_command_line(pid): nothing once the pid has exited.
get_command_line(pid) == IF pid \in procs THEN "Steam.exe" ELSE None

\* A process matching the pattern exits by itself (or after a request).
ProcExit ==
    /\ \E p \in procs : procs' = procs \ {p}
    /\ UNCHANGED <<pc, op, seqVars, trace, events, raised, prelaunch_ret, runnerVars,
                   outVars>>

\* A process matching the pattern is started by someone else.
ProcStart ==
    /\ \E p \in Pids \ procs : procs' = procs \cup {p}
    /\ UNCHANGED <<pc, op, seqVars, trace, events, raised, prelaunch_ret, runnerVars,
                   outVars>>

-----------------------------------------------------------------------------
(* os.path *)

\* os.path.join(a, b) for a relative b (every second component this module
\* joins is relative, and no first component ends in "/").
join(a, b) == IF a = "" THEN b ELSE a \o "/" \o b

\* os.path.join raises (AttributeError on Python 2) when a component is not a str.
JoinRaises(a, b) == a = None \/ b = None

-----------------------------------------------------------------------------
(* The log of the running operation *)

Log(e) == events' = Append(events, e)

\* A call that reads or signals the process table, or a sleep, with its pid
\* and the control point that makes it.
LogPid(e, call, pid) ==
    /\ Log(e)
    /\ trace' = Append(trace, [call |-> call, pid |-> pid, at |-> pc])

RECURSIVE Count(_, _)
Count(s, e) ==
    IF s = <<>> THEN 0
    ELSE (IF Head(s) = e THEN 1 ELSE 0) + Count(Tail(s), e)

\* The position of the first e in s, 0 when there is none.
First(s, e) ==
    IF \E i \in 1..Len(s) : s[i] = e
    THEN CHOOSE i \in 1..Len(s) : s[i] = e /\ \A j \in 1..(i - 1) : s[j] # e
    ELSE 0

\* A new operation starts with fresh locals, nothing returned and an empty log.
FreshSeq ==
    /\ rpid' = None /\ spid' = None /\ cwd' = None /\ cmdline' = None
    /\ kpid' = None /\ raised' = None
    /\ prelaunch_ret' = None
    /\ trace' = <<>>

FreshLocals ==
    /\ FreshSeq
    /\ plan' = NoPlan
    /\ popen' = NoPopen
    /\ ret' = None
    /\ listing' = NoListing
    /\ steam_dir' = None

Fresh ==
    /\ FreshLocals
    /\ events' = <<>>
    /\ data_path' = None

-----------------------------------------------------------------------------
(* is_running(), lines 38-39: bool(system.get_pid(pattern)).                *)
(* Probe(hit, miss): one call of it at the current control point, going on *)
(* at `hit` when a process matched and at `miss` when none did.             *)

Probe(hit, miss) ==
    \E pid \in get_pid :
        /\ rpid' = pid
        /\ LogPid(IF Truthy(pid) THEN "get_pid:hit" ELSE "get_pid:miss", "get_pid", pid)
        /\ pc' = IF Truthy(pid) THEN hit ELSE miss

-----------------------------------------------------------------------------
(* shutdown(), lines 42-53 *)

\* Where shutdown() returns to: prelaunch line 200 or stop line 238.
ShutdownReturn == IF op = "stop" THEN "stop_238" ELSE "prelaunch_201"

\* lines 46-48: pid = get_pid(...); if not pid: return False
Shutdown46 ==
    /\ pc = "shutdown_46"
    /\ \E pid \in get_pid :
        /\ spid' = pid
        /\ LogPid(IF Truthy(pid) THEN "get_pid:hit" ELSE "get_pid:miss", "get_pid", pid)
        /\ pc' = IF Truthy(pid) THEN "shutdown_49" ELSE ShutdownReturn
    /\ UNCHANGED <<procs, op, rpid, cwd, cmdline, kpid, raised, prelaunch_ret,
                   runnerVars, outVars>>

\* line 49: cwd = system.get_cwd(pid)
Shutdown49 ==
    /\ pc = "shutdown_49"
    /\ cwd' = get_cwd(spid)
    /\ LogPid("get_cwd", "get_cwd", spid)
    /\ pc' = "shutdown_50"
    /\ UNCHANGED <<procs, op, rpid, spid, cmdline, kpid, raised, prelaunch_ret,
                   runnerVars, outVars>>

\* line 50: cmdline = system.get_command_line(pid)
Shutdown50 ==
    /\ pc = "shutdown_50"
    /\ cmdline' = get_command_line(spid)
    /\ LogPid("get_command_line", "get_command_line", spid)
    /\ pc' = "shutdown_51"
    /\ UNCHANGED <<procs, op, rpid, spid, cwd, kpid, raised, prelaunch_ret,
                   runnerVars, outVars>>

\* lines 51-53: steam_exe = os.path.join(cwd, cmdline);
\* system.execute(['wine', steam_exe, '-shutdown'])
Shutdown51 ==
    /\ pc = "shutdown_51"
    /\ IF JoinRaises(cwd, cmdline)
       THEN /\ raised' = "AttributeError"
            /\ pc' = "done"
            /\ UNCHANGED events
       ELSE /\ Log("execute:-shutdown")
            /\ pc' = ShutdownReturn
            /\ UNCHANGED raised
    /\ UNCHANGED <<procs, op, seqVars, prelaunch_ret, runnerVars, outVars>>
    /\ UNCHANGED trace

-----------------------------------------------------------------------------
(* kill(), lines 56-57: system.kill_pid(system.get_pid(pattern)) *)

\* Kill57_get_pid without a probe of its own: kill() is handed the pid that
\* shutdown() found before the sleep.
Kill57_get_pid_Cached ==
    /\ pc = "kill_57"
    /\ kpid' = spid
    /\ pc' = "kill_57_kill_pid"
    /\ UNCHANGED <<procs, op, rpid, spid, cwd, cmdline, events, raised, prelaunch_ret,
                   runnerVars, outVars>>
    /\ UNCHANGED trace

\* The argument is evaluated first: a probe of kill()'s own.
Kill57_get_pid ==
    /\ pc = "kill_57"
    /\ \E pid \in get_pid :
        /\ kpid' = pid
        /\ LogPid(IF Truthy(pid) THEN "get_pid:hit" ELSE "get_pid:miss", "get_pid", pid)
    /\ pc' = "kill_57_kill_pid"
    /\ UNCHANGED <<procs, op, rpid, spid, cwd, cmdline, raised, prelaunch_ret,
                   runnerVars, outVars>>

\* system.kill_pid(pid): the unconditional terminate signal; silent when the
\* pid is no longer there (and taken to be silent too when handed None).  A
\* signalled process is gone, or is still in the table at the next probe (it
\* has not been reaped yet, or it was respawned under the same pid).
Kill57_kill_pid ==
    /\ pc = "kill_57_kill_pid"
    /\ \E dies \in BOOLEAN :
        procs' = IF dies THEN procs \ {kpid} ELSE procs
    /\ LogPid("kill_pid", "kill_pid", kpid)
    /\ pc' = "prelaunch_205"
    /\ UNCHANGED <<op, seqVars, raised, prelaunch_ret, runnerVars, outVars>>

-----------------------------------------------------------------------------
(* The runner's paths *)

\* os.path.expanduser("~")
Home == "/home/user"

\* A Steam directory of the user's own, and its Steam.exe, which the user may
\* have configured as the runner's steam_path.
CustomSteamDir == "/games/Steam"
CustomSteamExe == join(CustomSteamDir, "Steam.exe")

\* What self.get_executable() of the wine runner returns.
WineExe == "/usr/bin/wine"

\* get_default_steam_dir, lines 119-123
get_default_steam_dir(prefix) ==
    join(IF Truthy(prefix) THEN prefix ELSE join(Home, ".wine"),
         "drive_c/Program Files/Steam")

\* The directories a Steam.exe of this model can be in.
SteamDirs == {get_default_steam_dir(None), CustomSteamDir}

\* os.path.exists
exists(path) == path \in fs

\* os.path.dirname of the path of a Steam.exe.
dirname(path) ==
    IF \E d \in SteamDirs : join(d, "Steam.exe") = path
    THEN CHOOSE d \in SteamDirs : join(d, "Steam.exe") = path
    ELSE ""

\* The steam_path property, lines 111-117
steam_path ==
    LET path == runner_config.steam_path
    IN  IF Truthy(path) /\ exists(path)
        THEN path
        ELSE join(get_default_steam_dir(None), "Steam.exe")

\* is_installed that trusts a configured steam_path without looking on disk.
is_installed_TrustsConfig ==
    IF ~depends \/ ~Truthy(steam_path) THEN FALSE
    ELSE Truthy(runner_config.steam_path) \/ exists(steam_path)

\* is_installed, lines 142-148
is_installed ==
    IF ~depends \/ ~Truthy(steam_path) THEN FALSE ELSE exists(steam_path)

\* '"%s"' % x
Quote(x) == "\"" \o x \o "\""

\* The launch_args property, lines 106-109
launch_args == <<Quote(WineExe), Quote(steam_path), "-no-dwrite">>

-----------------------------------------------------------------------------
(* play(), lines 211-234 *)

\* The name in self.depends, set by the wine runner this class derives from.
Depends == "wine"

\* command with the extra arguments put before the -applaunch pair.
command_ArgsFirst ==
    LET appid  == OrEmpty(game_config.appid)
        args   == OrEmpty(game_config.args)
        prefix == OrEmpty(game_config.prefix)
    IN  <<"WINEDEBUG=fixme-all">>
        \o (IF prefix # "" THEN <<"WINEPREFIX=" \o Quote(prefix) \o " ">> ELSE <<>>)
        \o launch_args
        \o (IF args # "" THEN <<args>> ELSE <<>>)
        \o (IF appid # "" THEN <<"-applaunch", appid>> ELSE <<>>)

\* lines 219-234: the command of an installed runner.
command ==
    LET appid  == OrEmpty(game_config.appid)
        args   == OrEmpty(game_config.args)
        prefix == OrEmpty(game_config.prefix)
    IN  <<"WINEDEBUG=fixme-all">>
        \o (IF prefix # "" THEN <<"WINEPREFIX=" \o Quote(prefix) \o " ">> ELSE <<>>)
        \o launch_args
        \o (IF appid # "" THEN <<"-applaunch", appid>> ELSE <<>>)
        \o (IF args # "" THEN <<args>> ELSE <<>>)

\* play() without the is_installed() check of lines 215-217.
play_NoInstalledCheck ==
    IF ~depends
    THEN [error |-> "RUNNER_NOT_INSTALLED", runner |-> Depends]
    ELSE [command |-> command]

\* What play() returns.
play ==
    IF ~depends
    THEN [error |-> "RUNNER_NOT_INSTALLED", runner |-> Depends]
    ELSE IF ~is_installed
    THEN [error |-> "RUNNER_NOT_INSTALLED", runner |-> "winesteam"]
    ELSE [command |-> command]

\* One call of play(): line 222 calls self.prepare_launch() of the wine runner
\* on the way to a command.
Play ==
    /\ pc = "play"
    /\ plan' = play
    /\ IF "command" \in DOMAIN play THEN Log("prepare_launch") ELSE UNCHANGED events
    /\ pc' = "done"
    /\ UNCHANGED <<procs, op, seqVars, raised, prelaunch_ret, runnerVars, data_path,
                   resVars>>
    /\ UNCHANGED trace

-----------------------------------------------------------------------------
(* The data path of a game, lines 150-183 and 91-104.  A function that logs *)
(* is an operator giving [ret |-> what it returns, log |-> the calls made]. *)

\* Where the appmanifest of app a under the Steam directory d says it is installed.
ManifestPath(d, a) == join(join(d, "SteamApps/common"), "app" \o a)

\* Where the config file's apps section says app a is installed.
ConfigPath(a) == join("/mnt/library", "app" \o a)

\* lutris.util.steam.get_path_from_appmanifest(steam_path, appid): the
\* install-manifest source (spec 4.3, step 1).
get_path_from_appmanifest(dir, appid) ==
    IF dir \in SteamDirs /\ appid \in AppIds THEN manifest[dir][appid] ELSE None

\* What read_config gives for a config file that is not there or unreadable
\* (Python's None), and for one whose apps section is `apps`.
NoConfig == [readable |-> FALSE, apps |-> [a \in AppIds |-> None]]
Config(apps) == [readable |-> TRUE, apps |-> apps]

\* lutris.util.steam.read_config(steam_path): the sectioned configuration file
\* rooted at the install directory (spec 4.3, step 2); nothing when unreadable.
read_config(dir) == IF dir \in SteamDirs THEN steam_config[dir] ELSE NoConfig

\* lutris.util.steam.get_path_from_config(config, appid): the install location
\* in the config's app registry section (spec 4.3, step 2).
get_path_from_config(config, appid) ==
    IF ~config.readable THEN None
    ELSE IF appid \in DOMAIN config.apps THEN config.apps[appid] ELSE None

\* get_steam_config, lines 150-154
get_steam_config ==
    IF ~Truthy(steam_path)
    THEN [ret |-> NoConfig, log |-> <<>>]
    ELSE [ret |-> read_config(dirname(steam_path)), log |-> <<"read_config">>]

\* get_game_data_path with the warning of lines 181-182 left out.
get_game_data_path_NoWarning(appid) ==
    LET from_manifest == get_path_from_appmanifest(dirname(steam_path), appid)
        cfg == get_steam_config
        from_config == get_path_from_config(cfg.ret, appid)
    IN  IF Truthy(from_manifest)
        THEN [ret |-> from_manifest, log |-> <<"get_path_from_appmanifest">>]
        ELSE [ret |-> from_config,
              log |-> <<"get_path_from_appmanifest">> \o cfg.log]

\* get_game_data_path with the two sources in the other order.
get_game_data_path_ConfigFirst(appid) ==
    LET cfg == get_steam_config
        from_config == get_path_from_config(cfg.ret, appid)
        from_manifest == get_path_from_appmanifest(dirname(steam_path), appid)
    IN  IF Truthy(from_config)
        THEN [ret |-> from_config, log |-> cfg.log]
        ELSE [ret |-> from_manifest,
              log |-> cfg.log \o <<"get_path_from_appmanifest">>
                      \o (IF Truthy(from_manifest) THEN <<>> ELSE <<"logger.warning">>)]

\* get_game_data_path, lines 175-183
get_game_data_path(appid) ==
    LET from_manifest == get_path_from_appmanifest(dirname(steam_path), appid)
        cfg == get_steam_config
        from_config == get_path_from_config(cfg.ret, appid)
    IN  IF Truthy(from_manifest)
        THEN [ret |-> from_manifest, log |-> <<"get_path_from_appmanifest">>]
        ELSE [ret |-> from_config,
              log |-> <<"get_path_from_appmanifest">> \o cfg.log
                      \o (IF Truthy(from_config) THEN <<>> ELSE <<"logger.warning">>)]

\* The game_path property, lines 100-104: a second lookup returns the path
\* the first one found; nothing is returned when it found none.
game_path ==
    LET appid == game_config.appid
        first == get_game_data_path(appid)
        second == get_game_data_path(appid)
    IN  IF Truthy(first.ret)
        THEN [ret |-> second.ret, log |-> first.log \o second.log]
        ELSE [ret |-> None, log |-> first.log]

\* The browse_dir property, lines 91-98; installed is what self.install_dialog()
\* of the base runner answered.
browse_dir(installed) ==
    IF ~is_installed /\ ~installed
    THEN [ret |-> False, log |-> <<"install_dialog">>]
    ELSE [ret |-> game_path.ret,
          log |-> (IF is_installed THEN <<>> ELSE <<"install_dialog">>) \o game_path.log]

\* A call of get_game_data_path with the game's appid.
CallGetGameDataPath ==
    /\ pc = "idle"
    /\ op' = "get_game_data_path"
    /\ FreshLocals
    /\ data_path' = get_game_data_path(game_config.appid).ret
    /\ events' = get_game_data_path(game_config.appid).log
    /\ pc' = "done"
    /\ UNCHANGED <<procs, runnerVars>>

\* A read of game_path.
CallGamePath ==
    /\ pc = "idle"
    /\ op' = "game_path"
    /\ FreshLocals
    /\ data_path' = game_path.ret
    /\ events' = game_path.log
    /\ pc' = "done"
    /\ UNCHANGED <<procs, runnerVars>>

\* A read of browse_dir.
CallBrowseDir ==
    /\ pc = "idle"
    /\ op' = "browse_dir"
    /\ FreshLocals
    /\ \E installed \in BOOLEAN :
        /\ data_path' = browse_dir(installed).ret
        /\ events' = browse_dir(installed).log
    /\ pc' = "done"
    /\ UNCHANGED <<procs, runnerVars>>

\* A call of get_steam_config: what it returned is kept as whether a
\* configuration came back and which apps it lists.
CallGetSteamConfig ==
    /\ pc = "idle"
    /\ op' = "get_steam_config"
    /\ FreshSeq
    /\ listing' = [found |-> get_steam_config.ret.readable,
                   keys |-> {a \in AppIds : Truthy(get_steam_config.ret.apps[a])}]
    /\ events' = get_steam_config.log
    /\ plan' = NoPlan /\ data_path' = None /\ popen' = NoPopen /\ ret' = None
    /\ steam_dir' = None
    /\ pc' = "done"
    /\ UNCHANGED <<procs, runnerVars>>

\* get_appid_list, lines 156-161: the keys of the config's apps section, and
\* nothing when no configuration came back.
get_appid_list ==
    LET config == get_steam_config.ret
    IN  IF config.readable
        THEN [found |-> TRUE, keys |-> {a \in AppIds : Truthy(config.apps[a])}]
        ELSE NoListing

CallGetAppidList ==
    /\ pc = "idle"
    /\ op' = "get_appid_list"
    /\ FreshSeq
    /\ listing' = get_appid_list
    /\ events' = get_steam_config.log
    /\ plan' = NoPlan /\ data_path' = None /\ popen' = NoPopen /\ ret' = None
    /\ steam_dir' = None
    /\ pc' = "done"
    /\ UNCHANGED <<procs, runnerVars>>

\* The candidates of lines 164-167, in the order they are tried.
SteamappsCandidates == <<"SteamApps/common", "steamapps/common">>

\* get_steamapps_path that returns nothing when no candidate exists.
get_steamapps_path_ReturnsNone ==
    LET dir == dirname(steam_path)
        found == {i \in 1..Len(SteamappsCandidates) :
                    exists(join(dir, SteamappsCandidates[i]))}
    IN  IF found # {}
        THEN [ret |-> join(dir, SteamappsCandidates[CHOOSE i \in found :
                                    \A j \in found : i <= j]),
              raised |-> None]
        ELSE [ret |-> None, raised |-> None]

\* get_steamapps_path, lines 163-173: the first candidate that exists under
\* the directory of steam_path; IOError when none does.
get_steamapps_path ==
    LET dir == dirname(steam_path)
        found == {i \in 1..Len(SteamappsCandidates) :
                    exists(join(dir, SteamappsCandidates[i]))}
    IN  IF found # {}
        THEN [ret |-> join(dir, SteamappsCandidates[CHOOSE i \in found :
                                    \A j \in found : i <= j]),
              raised |-> None]
        ELSE [ret |-> None, raised |-> "IOError"]

CallGetSteamappsPath ==
    /\ pc = "idle"
    /\ op' = "get_steamapps_path"
    /\ data_path' = get_steamapps_path.ret
    /\ raised' = get_steamapps_path.raised
    /\ events' = <<>>
    /\ rpid' = None /\ spid' = None /\ cwd' = None /\ cmdline' = None /\ kpid' = None
    /\ prelaunch_ret' = None /\ trace' = <<>>
    /\ plan' = NoPlan /\ popen' = NoPopen /\ ret' = None /\ listing' = NoListing
    /\ steam_dir' = None
    /\ pc' = "done"
    /\ UNCHANGED <<procs, runnerVars>>

\* A call of play() by itself.
CallPlay ==
    /\ pc = "idle"
    /\ op' = "play"
    /\ Fresh
    /\ pc' = "play"
    /\ UNCHANGED <<procs, runnerVars>>

-----------------------------------------------------------------------------
(* install_game and validate_game, lines 185-194 *)

\* ' '.join(command)
RECURSIVE JoinSpace(_)
JoinSpace(c) ==
    IF c = <<>> THEN ""
    ELSE IF Len(c) = 1 THEN c[1]
    ELSE c[1] \o " " \o JoinSpace(Tail(c))

\* lines 186-189 and 192-194: subprocess.Popen(' '.join(command), shell=True)
\* with command = self.launch_args + [uri]
Popen(uri) ==
    LET cmd == launch_args \o <<uri>>
    IN  [args |-> cmd, string |-> JoinSpace(cmd), shell |-> TRUE]

\* install_game(appid), lines 185-189
CallInstallGame ==
    /\ pc = "idle"
    /\ op' = "install_game"
    /\ FreshSeq
    /\ \E appid \in AppIds : popen' = Popen("steam://install/" \o appid)
    /\ events' = <<"logger.debug", "Popen">>
    /\ plan' = NoPlan /\ data_path' = None /\ ret' = None /\ listing' = NoListing
    /\ steam_dir' = None
    /\ pc' = "done"
    /\ UNCHANGED <<procs, runnerVars>>

\* validate_game(appid), lines 191-194
CallValidateGame ==
    /\ pc = "idle"
    /\ op' = "validate_game"
    /\ FreshSeq
    /\ \E appid \in AppIds : popen' = Popen("steam://validate/" \o appid)
    /\ events' = <<"Popen">>
    /\ plan' = NoPlan /\ data_path' = None /\ ret' = None /\ listing' = NoListing
    /\ steam_dir' = None
    /\ pc' = "done"
    /\ UNCHANGED <<procs, runnerVars>>

\* A call of is_installed(), lines 142-148.
CallIsInstalled ==
    /\ pc = "idle"
    /\ op' = "is_installed"
    /\ FreshSeq
    /\ ret' = IF is_installed THEN True ELSE False
    /\ events' = <<>>
    /\ plan' = NoPlan /\ data_path' = None /\ popen' = NoPopen /\ listing' = NoListing
    /\ steam_dir' = None
    /\ pc' = "done"
    /\ UNCHANGED <<procs, runnerVars>>

-----------------------------------------------------------------------------
(* install(), lines 125-140 *)

\* Where download_steam puts the installer, lines 32-33 (settings.TMP_PATH).
InstallerPath == join("/tmp/lutris", "SteamInstall.msi")

\* What the caller passes as installer_path.
InstallerPaths == {None, InstallerPath}

\* What DirectoryDialog(...).folder can be: nothing when the user cancels,
\* else the directory picked.
Folders == {None, "/games"} \cup SteamDirs

\* install(installer_path): folder is what the dialog gives, installs whether
\* the msi run left a Steam.exe in the default directory.
install(installer_path, folder, installs) ==
    LET dir == IF Truthy(installer_path) THEN get_default_steam_dir(None) ELSE folder
        disk == IF Truthy(installer_path) /\ installs
                THEN fs \cup {join(get_default_steam_dir(None), "Steam.exe")}
                ELSE fs
        first == IF Truthy(installer_path) THEN "msi_exec" ELSE "DirectoryDialog"
    IN  IF JoinRaises(dir, "Steam.exe")
        THEN [steam_dir |-> dir, fs |-> disk, saved |-> saved,
              raised |-> "AttributeError", log |-> <<first>>]
        ELSE IF join(dir, "Steam.exe") \in disk
        THEN [steam_dir |-> dir, fs |-> disk, saved |-> join(dir, "Steam.exe"),
              raised |-> None, log |-> <<first, "config.save">>]
        ELSE [steam_dir |-> dir, fs |-> disk, saved |-> saved,
              raised |-> None, log |-> <<first, "ErrorDialog">>]

\* A call of install().  What it saves goes to the configuration store; the
\* runner_config this runner was given stays as it is.
CallInstall ==
    /\ pc = "idle"
    /\ op' = "install"
    /\ \E installer_path \in InstallerPaths, folder \in Folders, installs \in BOOLEAN :
        LET r == install(installer_path, folder, installs)
        IN  /\ steam_dir' = r.steam_dir
            /\ fs' = r.fs
            /\ saved' = r.saved
            /\ raised' = r.raised
            /\ events' = r.log
    /\ rpid' = None /\ spid' = None /\ cwd' = None /\ cmdline' = None /\ kpid' = None
    /\ prelaunch_ret' = None /\ trace' = <<>>
    /\ plan' = NoPlan /\ data_path' = None /\ popen' = NoPopen /\ ret' = None
    /\ listing' = NoListing
    /\ pc' = "done"
    /\ UNCHANGED <<procs, depends, runner_config, game_config, manifest, steam_config>>

-----------------------------------------------------------------------------
(* prelaunch(), lines 196-209.  The `steam` it imports has the three helpers *)
(* of lines 38-57 (is_running, shutdown, kill) for its own name pattern.    *)

\* Prelaunch198 with the guard of line 198 dropped: shutdown() is called anyway.
Prelaunch198_NoGuard ==
    /\ pc = "prelaunch_198"
    /\ Probe("shutdown_46", "shutdown_46")
    /\ UNCHANGED <<procs, op, spid, cwd, cmdline, kpid, raised, prelaunch_ret,
                   runnerVars, outVars>>

\* line 198: if steam.is_running():
Prelaunch198 ==
    /\ pc = "prelaunch_198"
    /\ Probe("shutdown_46", "prelaunch_209")
    /\ UNCHANGED <<procs, op, spid, cwd, cmdline, kpid, raised, prelaunch_ret,
                   runnerVars, outVars>>

\* lines 200-201: logger.info(...); time.sleep(2)
Prelaunch201 ==
    /\ pc = "prelaunch_201"
    /\ LogPid("sleep", "sleep", None)
    /\ pc' = "prelaunch_202"
    /\ UNCHANGED <<procs, op, seqVars, raised, prelaunch_ret, runnerVars, outVars>>

\* Prelaunch202 with the recheck of line 202 ignored: kill() whatever it saw.
Prelaunch202_AlwaysKill ==
    /\ pc = "prelaunch_202"
    /\ Probe("kill_57", "kill_57")
    /\ UNCHANGED <<procs, op, spid, cwd, cmdline, kpid, raised, prelaunch_ret,
                   runnerVars, outVars>>

\* line 202: if steam.is_running(): ... steam.kill()
Prelaunch202 ==
    /\ pc = "prelaunch_202"
    /\ Probe("kill_57", "prelaunch_209")
    /\ UNCHANGED <<procs, op, spid, cwd, cmdline, kpid, raised, prelaunch_ret,
                   runnerVars, outVars>>

\* line 205: time.sleep(2)
Prelaunch205 ==
    /\ pc = "prelaunch_205"
    /\ LogPid("sleep", "sleep", None)
    /\ pc' = "prelaunch_206"
    /\ UNCHANGED <<procs, op, seqVars, raised, prelaunch_ret, runnerVars, outVars>>

\* Prelaunch206 with the last recheck ignored: falls through to return True.
Prelaunch206_NoFail ==
    /\ pc = "prelaunch_206"
    /\ Probe("prelaunch_209", "prelaunch_209")
    /\ UNCHANGED <<procs, op, spid, cwd, cmdline, kpid, raised, prelaunch_ret,
                   runnerVars, outVars>>

\* Prelaunch206 that tries the kill again while the target is still found.
Prelaunch206_Retry ==
    /\ pc = "prelaunch_206"
    /\ Probe("kill_57", "prelaunch_209")
    /\ UNCHANGED <<procs, op, spid, cwd, cmdline, kpid, raised, prelaunch_ret,
                   runnerVars, outVars>>

\* line 206: if steam.is_running():
Prelaunch206 ==
    /\ pc = "prelaunch_206"
    /\ Probe("prelaunch_208", "prelaunch_209")
    /\ UNCHANGED <<procs, op, spid, cwd, cmdline, kpid, raised, prelaunch_ret,
                   runnerVars, outVars>>

\* Prelaunch208 with the return of line 208 missing: the error is logged and
\* control falls through to return True.
Prelaunch208_FallsThrough ==
    /\ pc = "prelaunch_208"
    /\ Log("logger.error")
    /\ prelaunch_ret' = True
    /\ pc' = "launch"
    /\ UNCHANGED <<procs, op, seqVars, raised, runnerVars, outVars>>
    /\ UNCHANGED trace

\* lines 207-208: logger.error(...); return False
Prelaunch208 ==
    /\ pc = "prelaunch_208"
    /\ Log("logger.error")
    /\ prelaunch_ret' = False
    /\ pc' = "launch"
    /\ UNCHANGED <<procs, op, seqVars, raised, runnerVars, outVars>>
    /\ UNCHANGED trace

\* line 209: return True
Prelaunch209 ==
    /\ pc = "prelaunch_209"
    /\ prelaunch_ret' = True
    /\ pc' = "launch"
    /\ UNCHANGED <<procs, op, seqVars, events, raised, runnerVars, outVars>>
    /\ UNCHANGED trace

-----------------------------------------------------------------------------
(* The caller that launches a game (spec 4.5): prelaunch(), and play() only *)
(* when prelaunch() did not fail.                                           *)

CallLaunch ==
    /\ pc = "idle"
    /\ op' = "launch"
    /\ pc' = "prelaunch_198"
    /\ Fresh
    /\ UNCHANGED <<procs, runnerVars>>

Launch ==
    /\ pc = "launch"
    /\ pc' = IF prelaunch_ret = True THEN "play" ELSE "done"
    /\ UNCHANGED <<procs, op, seqVars, events, raised, prelaunch_ret, runnerVars, outVars>>
    /\ UNCHANGED trace

-----------------------------------------------------------------------------
(* stop(), lines 236-239 *)

\* line 237: shutdown()
CallStop ==
    /\ pc = "idle"
    /\ op' = "stop"
    /\ pc' = "shutdown_46"
    /\ Fresh
    /\ UNCHANGED <<procs, runnerVars>>

\* line 238: time.sleep(2)
Stop238 ==
    /\ pc = "stop_238"
    /\ LogPid("sleep", "sleep", None)
    /\ pc' = "stop_239"
    /\ UNCHANGED <<procs, op, seqVars, raised, prelaunch_ret, runnerVars, outVars>>

\* line 239: super(winesteam, self).stop()
Stop239 ==
    /\ pc = "stop_239"
    /\ Log("wine.stop")
    /\ pc' = "done"
    /\ UNCHANGED <<procs, op, seqVars, raised, prelaunch_ret, runnerVars, outVars>>
    /\ UNCHANGED trace

\* The operation has returned (or raised) to its caller.
Finish ==
    /\ pc = "done"
    /\ pc' = "idle"
    /\ UNCHANGED <<procs, op, seqVars, events, raised, prelaunch_ret, runnerVars, outVars>>
    /\ UNCHANGED trace

-----------------------------------------------------------------------------
(* The shutdown escalation: prelaunch() and stop() against a process table  *)
(* that changes under them.                                                 *)

Init ==
    /\ procs \in SUBSET Pids
    /\ pc = "idle"
    /\ op = "none"
    /\ rpid = None /\ spid = None /\ cwd = None /\ cmdline = None /\ kpid = None
    /\ events = <<>>
    /\ raised = None
    /\ prelaunch_ret = None
    /\ depends \in BOOLEAN
    /\ fs \in SUBSET {join(get_default_steam_dir(None), "Steam.exe")}
    /\ runner_config = [steam_path |-> None]
    /\ game_config = [appid |-> "440", args |-> None, prefix |-> None]
    /\ manifest = [d \in SteamDirs |-> [a \in AppIds |-> None]]
    /\ steam_config = [d \in SteamDirs |-> NoConfig]
    /\ saved = runner_config.steam_path
    /\ plan = NoPlan
    /\ data_path = None
    /\ trace = <<>>
    /\ popen = NoPopen
    /\ ret = None
    /\ listing = NoListing
    /\ steam_dir = None

Next ==
    \/ ProcExit \/ ProcStart
    \/ CallLaunch
    \/ Prelaunch198 \/ Prelaunch201 \/ Prelaunch202 \/ Prelaunch205
    \/ Prelaunch206 \/ Prelaunch208 \/ Prelaunch209
    \/ Shutdown46 \/ Shutdown49 \/ Shutdown50 \/ Shutdown51
    \/ Kill57_get_pid \/ Kill57_kill_pid
    \/ Launch \/ Play
    \/ CallStop \/ Stop238 \/ Stop239
    \/ Finish

Spec == Init /\ [][Next]_vars

-----------------------------------------------------------------------------
(* play() over the configurations and disks it can meet *)

ConfiguredSteamPaths == {None, "", CustomSteamExe}
Disks == SUBSET {join(get_default_steam_dir(None), "Steam.exe"), CustomSteamExe}
ConfiguredAppIds == {None, ""} \cup AppIds
ConfiguredArgs == {None, "", "-windowed"}
ConfiguredPrefixes == {None, "", join(Home, "prefix")}

InitQuiet ==
    /\ procs = {}
    /\ pc = "idle"
    /\ op = "none"
    /\ rpid = None /\ spid = None /\ cwd = None /\ cmdline = None /\ kpid = None
    /\ events = <<>>
    /\ raised = None
    /\ prelaunch_ret = None
    /\ plan = NoPlan
    /\ data_path = None
    /\ trace = <<>>
    /\ popen = NoPopen
    /\ ret = None
    /\ listing = NoListing
    /\ steam_dir = None

InitPlay ==
    /\ InitQuiet
    /\ depends \in BOOLEAN
    /\ fs \in Disks
    /\ runner_config \in [steam_path : ConfiguredSteamPaths]
    /\ game_config \in [appid : ConfiguredAppIds, args : ConfiguredArgs,
                         prefix : ConfiguredPrefixes]
    /\ manifest = [d \in SteamDirs |-> [a \in AppIds |-> None]]
    /\ steam_config = [d \in SteamDirs |-> NoConfig]
    /\ saved = runner_config.steam_path

NextPlay ==
    \/ CallPlay \/ Play
    \/ CallInstallGame \/ CallValidateGame
    \/ CallIsInstalled
    \/ CallInstall
    \/ Finish

SpecPlay == InitPlay /\ [][NextPlay]_vars

-----------------------------------------------------------------------------
(* The data path lookups over the manifests and config files they can meet *)

Manifests == [SteamDirs -> [AppIds -> {None, "hit"}]]
SteamConfigs == [SteamDirs -> {NoConfig} \cup {Config(apps) : apps \in [AppIds -> {None, "hit"}]}]

InitData ==
    /\ InitQuiet
    /\ depends \in BOOLEAN
    /\ fs \in Disks
    /\ runner_config \in [steam_path : {None, CustomSteamExe}]
    /\ game_config \in [appid : ConfiguredAppIds, args : {None}, prefix : {None}]
    /\ saved = runner_config.steam_path
    /\ \E m \in Manifests :
        manifest = [d \in SteamDirs |-> [a \in AppIds |->
                        IF m[d][a] = None THEN None ELSE ManifestPath(d, a)]]
    /\ \E c \in SteamConfigs :
        steam_config = [d \in SteamDirs |->
                            [c[d] EXCEPT !.apps = [a \in AppIds |->
                                IF c[d].apps[a] = None THEN None ELSE ConfigPath(a)]]]

NextData == CallGetGameDataPath \/ CallGamePath \/ CallBrowseDir \/ Finish

SpecData == InitData /\ [][NextData]_vars

-----------------------------------------------------------------------------
(* The lookups over disks where files and directories may be missing *)

\* The steamapps directories that may be on disk.
SteamappsDirs ==
    {join(d, SteamappsCandidates[i]) : d \in SteamDirs, i \in 1..Len(SteamappsCandidates)}

InitLookup ==
    /\ InitQuiet
    /\ depends = TRUE
    /\ fs \in SUBSET ({join(d, "Steam.exe") : d \in SteamDirs} \cup SteamappsDirs)
    /\ runner_config \in [steam_path : {None, CustomSteamExe}]
    /\ game_config = [appid |-> "440", args |-> None, prefix |-> None]
    /\ saved = runner_config.steam_path
    /\ manifest = [d \in SteamDirs |-> [a \in AppIds |-> None]]
    /\ \E c \in SteamConfigs :
        steam_config = [d \in SteamDirs |->
                            [c[d] EXCEPT !.apps = [a \in AppIds |->
                                IF c[d].apps[a] = None THEN None ELSE ConfigPath(a)]]]

NextLookup ==
    \/ CallGetGameDataPath
    \/ CallGetSteamConfig
    \/ CallGetAppidList
    \/ CallGetSteamappsPath
    \/ Finish

SpecLookup == InitLookup /\ [][NextLookup]_vars

-----------------------------------------------------------------------------
(* What the log of the running operation says *)

Sleeps == Count(events, "sleep")
Kills == Count(events, "kill_pid")
Requests == Count(events, "execute:-shutdown")
Misses == Count(events, "get_pid:miss")

\* prelaunch() has returned or raised.
PrelaunchEnded == prelaunch_ret # None \/ raised # None

\* The n-th sleep has been followed by a probe with the outcome e.
RecheckAfterSleep(n, e) ==
    \E i \in 1..(Len(events) - 1) :
        /\ events[i] = "sleep"
        /\ Count(SubSeq(events, 1, i), "sleep") = n
        /\ events[i + 1] = e

\* The recheck of line 202 found the target and the probe of the kill() that
\* follows (line 57) did not.
KillProbeMissed ==
    \E i \in 1..(Len(events) - 2) :
        /\ events[i] = "sleep"
        /\ events[i + 1] = "get_pid:hit"
        /\ events[i + 2] = "get_pid:miss"

\* Every read of the process table so far found the target.
AllReadsHit ==
    /\ Misses = 0
    /\ Count(events, "get_cwd") > 0 => cwd # None
    /\ Count(events, "get_command_line") > 0 => cmdline # None

-----------------------------------------------------------------------------
(* The claims about the shutdown escalation *)

\* C1: when the target is found by every read of the process table, prelaunch()
\* returns False after exactly two sleeps and exactly one kill, and the one
\* graceful request was made before the first sleep.
C1_NeverExitsFails ==
    (op = "launch" /\ PrelaunchEnded /\ AllReadsHit) =>
        /\ prelaunch_ret = False
        /\ raised = None
        /\ Sleeps = 2
        /\ Kills = 1
        /\ Requests = 1
        /\ First(events, "execute:-shutdown") < First(events, "sleep")

C1_Witness ==
    op = "launch" /\ prelaunch_ret = False /\ AllReadsHit /\ Kills = 1

\* C2: when the first probe of prelaunch() finds no target, prelaunch() returns
\* True at once: nothing else is read, requested, killed or slept on.
C2_NotRunningStopsAtOnce ==
    (op = "launch" /\ events # <<>> /\ events[1] = "get_pid:miss") =>
        /\ pc \in {"prelaunch_209", "launch", "play", "done", "idle"}
        /\ raised = None
        /\ pc # "prelaunch_209" => prelaunch_ret = True
        /\ Requests = 0 /\ Kills = 0 /\ Sleeps = 0
        /\ \A i \in 2..Len(events) : events[i] = "prepare_launch"

C2_Witness ==
    op = "launch" /\ events = <<"get_pid:miss">> /\ prelaunch_ret = True

\* C3: when the target is gone at the first recheck after a graceful request
\* was made, prelaunch() returns True after exactly one sleep and no kill.
C3_ExitsAfterRequest ==
    (op = "launch" /\ Requests = 1 /\ RecheckAfterSleep(1, "get_pid:miss")) =>
        /\ pc \in {"prelaunch_209", "launch", "play", "done", "idle"}
        /\ raised = None
        /\ pc # "prelaunch_209" => prelaunch_ret = True
        /\ Sleeps = 1
        /\ Kills = 0

C3_Witness ==
    /\ op = "launch" /\ Requests = 1 /\ RecheckAfterSleep(1, "get_pid:miss")
    /\ prelaunch_ret = True

C5_ShutdownToleratesExit ==
    (/\ op \in {"launch", "stop"}
     /\ Count(events, "get_command_line") > 0
     /\ (cwd = None \/ cmdline = None)) =>
        /\ raised = None
        /\ pc \in {"done", "idle"} => Sleeps >= 1

\* C6: when the target seen by the recheck of line 202 is gone at kill()'s own
\* probe, kill_pid is not handed the absent pid, nothing is raised, and
\* prelaunch() returns True if the target stays away.
C6_KillToleratesExit ==
    (op = "launch" /\ KillProbeMissed) =>
        /\ Kills = 0
        /\ raised = None
        /\ (PrelaunchEnded /\ RecheckAfterSleep(2, "get_pid:miss")) => prelaunch_ret = True

-----------------------------------------------------------------------------
(* The claims about play() and the data path.  The paths are written out    *)
(* here, independently of the operators above.                              *)

DefaultSteamExe == "/home/user/.wine/drive_c/Program Files/Steam/Steam.exe"

\* The configured Steam.exe when it is set and on disk, else the default one.
ExpectedSteamExe ==
    IF Truthy(runner_config.steam_path) /\ runner_config.steam_path \in fs
    THEN runner_config.steam_path
    ELSE DefaultSteamExe

ExpectedSteamDir ==
    IF ExpectedSteamExe = "/games/Steam/Steam.exe"
    THEN "/games/Steam"
    ELSE "/home/user/.wine/drive_c/Program Files/Steam"

PlayReturned == op = "play" /\ pc = "done"

\* C7: play() raises nothing; it returns an error result exactly when the
\* dependency check fails or no Steam.exe (configured or default) is on disk,
\* a command result otherwise, and never both.
C7_PlayErrorOrCommand ==
    PlayReturned =>
        LET missing == ~depends \/ ExpectedSteamExe \notin fs
        IN  /\ raised = None
            /\ ("error" \in DOMAIN plan) <=> missing
            /\ ("command" \in DOMAIN plan) <=> ~missing
            /\ ~("error" \in DOMAIN plan /\ "command" \in DOMAIN plan)
            /\ "error" \in DOMAIN plan => plan.error = "RUNNER_NOT_INSTALLED"

C7_Witness ==
    /\ PlayReturned /\ depends /\ ExpectedSteamExe \notin fs
    /\ "error" \in DOMAIN plan /\ "command" \notin DOMAIN plan

\* The appid of the game is in neither the manifest nor the readable config
\* of the Steam directory in use.
InNeitherSource ==
    LET a == game_config.appid
        d == ExpectedSteamDir
    IN  \/ a \notin AppIds
        \/ /\ manifest[d][a] = None
           /\ (~steam_config[d].readable \/ steam_config[d].apps[a] = None)

\* C8: get_game_data_path returns the manifest's path, without reading the
\* config file, for an appid the manifest has; it returns the config's path
\* for an appid only the config has.
C8_ManifestFirst ==
    (op = "get_game_data_path" /\ pc = "done" /\ game_config.appid \in AppIds) =>
        LET a == game_config.appid
            d == ExpectedSteamDir
        IN  /\ manifest[d][a] # None =>
                /\ data_path = manifest[d][a]
                /\ Count(events, "read_config") = 0
            /\ (/\ manifest[d][a] = None
                /\ steam_config[d].readable
                /\ steam_config[d].apps[a] # None) =>
                    data_path = steam_config[d].apps[a]

C8_Witness ==
    /\ op = "get_game_data_path" /\ pc = "done" /\ game_config.appid \in AppIds
    /\ manifest[ExpectedSteamDir][game_config.appid] # None
    /\ steam_config[ExpectedSteamDir].readable
    /\ steam_config[ExpectedSteamDir].apps[game_config.appid] # None
    /\ data_path = manifest[ExpectedSteamDir][game_config.appid]
    /\ data_path # steam_config[ExpectedSteamDir].apps[game_config.appid]

\* C9: for an appid in neither source, the lookup (by itself, through
\* game_path, or through a browse_dir that gets as far as game_path) returns
\* nothing, raises nothing and logs exactly one warning.
C9_NotFoundWarnsOnce ==
    (/\ op \in {"get_game_data_path", "game_path", "browse_dir"}
     /\ pc = "done"
     /\ Count(events, "get_path_from_appmanifest") > 0
     /\ InNeitherSource) =>
        /\ data_path = None
        /\ raised = None
        /\ Count(events, "logger.warning") = 1

C9_Witness ==
    /\ op = "browse_dir" /\ pc = "done" /\ InNeitherSource
    /\ game_config.appid \in AppIds
    /\ Count(events, "get_path_from_appmanifest") = 1
    /\ data_path = None /\ Count(events, "logger.warning") = 1

\* C10: the command of play() is the environment assignments, then the quoted
\* wine executable, the quoted Steam.exe and -no-dwrite, then -applaunch and
\* the appid exactly when the appid is not empty, then the arguments exactly
\* when they are not empty.
C10_CommandOrder ==
    (PlayReturned /\ "command" \in DOMAIN plan) =>
        LET c == plan.command
            appid == IF game_config.appid \in {None, ""} THEN "" ELSE game_config.appid
            args == IF game_config.args \in {None, ""} THEN "" ELSE game_config.args
            env == IF game_config.prefix \in {None, ""} THEN 1 ELSE 2
            n == Len(c)
        IN  /\ n = env + 3 + (IF appid # "" THEN 2 ELSE 0) + (IF args # "" THEN 1 ELSE 0)
            /\ c[1] = "WINEDEBUG=fixme-all"
            /\ c[env + 1] = "\"/usr/bin/wine\""
            /\ c[env + 2] = "\"" \o ExpectedSteamExe \o "\""
            /\ c[env + 3] = "-no-dwrite"
            /\ appid # "" => c[env + 4] = "-applaunch" /\ c[env + 5] = appid
            /\ appid = "" => \A i \in 1..n : c[i] # "-applaunch"
            /\ args # "" => c[n] = args
            /\ (appid # "" /\ args # "") =>
                   SubSeq(c, n - 2, n) = <<"-applaunch", appid, args>>

C10_Witness ==
    /\ PlayReturned /\ "command" \in DOMAIN plan
    /\ game_config.appid = "440" /\ game_config.args = "-windowed"
    /\ SubSeq(plan.command, Len(plan.command) - 2, Len(plan.command))
           = <<"-applaunch", "440", "-windowed">>

-----------------------------------------------------------------------------
(* The claims about the launch modes, is_installed() and install() *)

\* e is an element of the sequence c.
Has(c, e) == \E i \in 1..Len(c) : c[i] = e

\* C11: the command of every mode (play, install_game, validate_game) has the
\* WINEDEBUG=fixme-all assignment, and has the WINEPREFIX assignment of the
\* configured prefix exactly when a prefix is configured.
C11_EnvOverridesEveryMode ==
    (/\ pc = "done"
     /\ \/ op = "play" /\ "command" \in DOMAIN plan
        \/ op \in {"install_game", "validate_game"}) =>
        LET c == IF op = "play" THEN plan.command ELSE popen.args
            prefix == game_config.prefix
        IN  /\ Has(c, "WINEDEBUG=fixme-all")
            /\ (prefix \notin {None, ""}) <=>
                   Has(c, "WINEPREFIX=\"" \o prefix \o "\" ")

\* C12: is_installed() returns True exactly when the dependency is there and
\* the configured Steam.exe, or else the default one, is on disk.
C12_IsInstalledIff ==
    (op = "is_installed" /\ pc = "done") =>
        /\ ret \in {True, False}
        /\ ret = True <=> (depends /\ ExpectedSteamExe \in fs)
        /\ (DefaultSteamExe \notin fs /\ "/games/Steam/Steam.exe" \notin fs) => ret = False

C12_Witness ==
    /\ op = "is_installed" /\ pc = "done"
    /\ depends /\ runner_config.steam_path = "/games/Steam/Steam.exe"
    /\ fs = {} /\ ret = False

\* C13: install() raises nothing; it saves a path only when the Steam.exe of
\* the chosen or default directory is on disk, and when it is not (or no
\* directory was chosen) it saves nothing and shows one error dialog.
C13_InstallValidates ==
    (op = "install" /\ pc = "done") =>
        LET found == steam_dir # None /\ (steam_dir \o "/Steam.exe") \in fs
        IN  /\ raised = None
            /\ Count(events, "config.save") > 0 => found /\ saved = steam_dir \o "/Steam.exe"
            /\ ~found => Count(events, "config.save") = 0 /\ Count(events, "ErrorDialog") = 1

\* C20: the call of is_installed() that follows an install() which saved a
\* path returns True when the dependency is there.
C20_InstalledAfterInstall ==
    [][(/\ op = "install" /\ Count(events, "config.save") > 0
        /\ depends
        /\ op' = "is_installed") => ret' = True]_vars

-----------------------------------------------------------------------------
(* The claims about stop() and the order of the escalation *)

\* Some e in s before some f, and that before some g.
InOrder(s, e, f, g) ==
    \E i, j, k \in 1..Len(s) :
        i < j /\ j < k /\ s[i] = e /\ s[j] = f /\ s[k] = g

\* stop() has returned or raised.
StopEnded == op = "stop" /\ pc \in {"done", "idle"}

\* C14: every execution of stop() calls shutdown(), then sleeps exactly once,
\* then runs the base runner's stop(), whether or not the target was found,
\* and never kills.
C14_StopAlwaysTearsDown ==
    StopEnded =>
        /\ raised = None
        /\ Sleeps = 1
        /\ Kills = 0
        /\ Len(events) >= 3
        /\ events[1] \in {"get_pid:hit", "get_pid:miss"}
        /\ events[Len(events) - 1] = "sleep"
        /\ events[Len(events)] = "wine.stop"

\* The control points of prelaunch() and of the helpers it calls.
PrelaunchLabels ==
    {"prelaunch_198", "shutdown_46", "shutdown_49", "shutdown_50", "shutdown_51",
     "prelaunch_201", "prelaunch_202", "kill_57", "kill_57_kill_pid",
     "prelaunch_205", "prelaunch_206", "prelaunch_208", "prelaunch_209"}

\* How many steps of prelaunch() can still follow a control point.
Rank(l) ==
    CASE l = "prelaunch_198"    -> 12
      [] l = "shutdown_46"      -> 11
      [] l = "shutdown_49"      -> 10
      [] l = "shutdown_50"      -> 9
      [] l = "shutdown_51"      -> 8
      [] l = "prelaunch_201"    -> 7
      [] l = "prelaunch_202"    -> 6
      [] l = "kill_57"          -> 5
      [] l = "kill_57_kill_pid" -> 4
      [] l = "prelaunch_205"    -> 3
      [] l = "prelaunch_206"    -> 2
      [] l = "prelaunch_208"    -> 1
      [] l = "prelaunch_209"    -> 1
      [] OTHER                  -> 0

\* C16: whatever the process table does, prelaunch() sleeps at most twice and
\* kills at most once, and every step it takes brings it nearer to its end: no
\* control point is ever gone back to.
C16_EscalationBounded ==
    [][(op = "launch" /\ op' = "launch") =>
        /\ Sleeps' <= 2
        /\ Kills' <= 1
        /\ (pc \in PrelaunchLabels /\ pc' # pc) => Rank(pc') < Rank(pc)]_vars

C16_Witness ==
    op = "launch" /\ pc = "launch" /\ Sleeps = 2 /\ Kills = 1 /\ procs # {}

\* C17: a kill comes only after a graceful request that was sent, and a sleep
\* after that request.
C17_KillOnlyAfterRequest ==
    (op = "launch" /\ Kills >= 1) =>
        InOrder(events, "execute:-shutdown", "sleep", "kill_pid")

\* The calls that use a pid.
PidUses == {"get_cwd", "get_command_line", "kill_pid"}

\* The control point whose probe a use of a pid belongs to: line 46 for the
\* reads of shutdown(), line 57 for the kill.
ProbeOf(call) == IF call = "kill_pid" THEN "kill_57" ELSE "shutdown_46"

\* C18: every call that uses a pid uses the one returned by the probe of its
\* own helper, and no sleep and no other probe lies between that probe and
\* the use.
C18_NoCachedPid ==
    \A i \in 1..Len(trace) :
        trace[i].call \in PidUses =>
            \E j \in 1..(i - 1) :
                /\ trace[j].call = "get_pid"
                /\ trace[j].at = ProbeOf(trace[i].call)
                /\ trace[j].pid = trace[i].pid
                /\ \A k \in (j + 1)..(i - 1) : trace[k].call \notin {"get_pid", "sleep"}

C18_Witness ==
    /\ op = "launch"
    /\ \E i, j \in 1..Len(trace) :
        /\ i < j
        /\ trace[i].call = "get_command_line" /\ trace[i].pid \in Pids
        /\ trace[j].call = "kill_pid" /\ trace[j].pid \in Pids
        /\ trace[i].pid # trace[j].pid

\* C19: a process that kill_pid signals is the one that the recheck of line
\* 202, which led to the kill, had found.
C19_KillsTheRecheckedPid ==
    \A i \in 1..Len(trace) :
        (trace[i].call = "kill_pid" /\ trace[i].pid \in Pids) =>
            \E j \in 1..(i - 1) :
                /\ trace[j].call = "get_pid"
                /\ trace[j].at = "prelaunch_202"
                /\ trace[j].pid = trace[i].pid

-----------------------------------------------------------------------------
(* The claims about the lookups *)

Lookups == {"get_game_data_path", "get_steam_config", "get_appid_list",
            "get_steamapps_path"}

\* No readable configuration file in the directory that steam_path points at.
ConfigMissing == ~steam_config[ExpectedSteamDir].readable

\* Neither steamapps directory exists in the directory that steam_path
\* points at.
SteamappsMissing ==
    /\ (ExpectedSteamDir \o "/SteamApps/common") \notin fs
    /\ (ExpectedSteamDir \o "/steamapps/common") \notin fs

\* C15: no lookup raises; with the configuration missing or unreadable the
\* data path, the configuration and the appid list come back as nothing, and
\* with no steamapps directory on disk get_steamapps_path returns nothing.
C15_NoLookupRaises ==
    (op \in Lookups /\ pc = "done") =>
        /\ raised = None
        /\ (op = "get_game_data_path" /\ ConfigMissing) => data_path = None
        /\ (op \in {"get_steam_config", "get_appid_list"} /\ ConfigMissing) =>
                listing = NoListing
        /\ (op = "get_steamapps_path" /\ SteamappsMissing) => data_path = None

\* C15 as the code has it: the data path, the configuration and the appid
\* list never raise and come back as nothing when the configuration is
\* missing or unreadable; get_steamapps_path returns the first steamapps
\* directory that exists and raises IOError exactly when neither does.
C15_OnlySteamappsPathRaises ==
    (op \in Lookups /\ pc = "done") =>
        /\ op # "get_steamapps_path" => raised = None
        /\ (op = "get_game_data_path" /\ ConfigMissing) => data_path = None
        /\ (op \in {"get_steam_config", "get_appid_list"} /\ ConfigMissing) =>
                listing = NoListing
        /\ op = "get_steamapps_path" =>
            /\ raised = "IOError" <=> SteamappsMissing
            /\ raised \in {None, "IOError"}
            /\ raised = "IOError" => data_path = None
            /\ raised = None =>
                data_path = IF (ExpectedSteamDir \o "/SteamApps/common") \in fs
                            THEN ExpectedSteamDir \o "/SteamApps/common"
                            ELSE ExpectedSteamDir \o "/steamapps/common"

C15_Witness ==
    /\ op = "get_steamapps_path" /\ pc = "done"
    /\ raised = "IOError" /\ SteamappsMissing
    /\ ExpectedSteamDir = "/games/Steam"
    /\ "/home/user/.wine/drive_c/Program Files/Steam/steamapps/common" \in fs

====
